---- MODULE Spec2Model ----
(***************************************************************************)
(* A model of app.js (Account Details web app): the versioned migration of *)
(* the key-value store, theme and favourites persistence, the account      *)
(* load, the filter pipeline and the debounced search.                     *)
(*                                                                         *)
(* A JavaScript string is a sequence of one-character strings, so that     *)
(* comparison, case folding, substring search and JSON (de)serialisation   *)
(* are computed character by character, as the platform computes them.     *)
(***************************************************************************)
EXTENDS Integers, Sequences, FiniteSets, TLC

\* ------------------------------------------------------------------------
\* Bounds of the model
\* ------------------------------------------------------------------------

\* Largest number of input events of one session that arm a debounce timer.
MaxInputs == 3

\* Largest number of calls of the migration in a row.
MaxMigrations == 2

\* ------------------------------------------------------------------------
\* CONFIG (src/app.js 28-46) and string literals of the code
\* ------------------------------------------------------------------------

DEBOUNCE_DELAY == 250

FAVORITES_KEY == "accounts:favs"
THEME_KEY == "accounts:theme"
VERSION_KEY == "accounts:version"

APP_VERSION == <<"2", ".", "0">>
DEFAULT_THEME == <<"l", "i", "g", "h", "t">>

LIGHT == <<"l", "i", "g", "h", "t">>
DARK == <<"d", "a", "r", "k">>
SYSTEM == <<"s", "y", "s", "t", "e", "m">>
ALL == <<"a", "l", "l">>

\* The keys the model's store may hold, with the characters of each name.
KeyChars ==
  ("accounts:favs" :> <<"a", "c", "c", "o", "u", "n", "t", "s", ":", "f", "a", "v", "s">>)
  @@ ("accounts:theme" :> <<"a", "c", "c", "o", "u", "n", "t", "s", ":", "t", "h", "e", "m", "e">>)
  @@ ("accounts:version" :> <<"a", "c", "c", "o", "u", "n", "t", "s", ":", "v", "e", "r", "s", "i", "o", "n">>)
  @@ ("accountsApp:settings" :> <<"a", "c", "c", "o", "u", "n", "t", "s", "A", "p", "p", ":", "s", "e", "t", "t", "i", "n", "g", "s">>)
  @@ ("accountsApp:preferences" :> <<"a", "c", "c", "o", "u", "n", "t", "s", "A", "p", "p", ":", "p", "r", "e", "f", "e", "r", "e", "n", "c", "e", "s">>)
  @@ ("accountsApp:cache" :> <<"a", "c", "c", "o", "u", "n", "t", "s", "A", "p", "p", ":", "c", "a", "c", "h", "e">>)
  @@ ("accounts:cache" :> <<"a", "c", "c", "o", "u", "n", "t", "s", ":", "c", "a", "c", "h", "e">>)
  @@ ("accounts:settings" :> <<"a", "c", "c", "o", "u", "n", "t", "s", ":", "s", "e", "t", "t", "i", "n", "g", "s">>)
  @@ ("accounts:other" :> <<"a", "c", "c", "o", "u", "n", "t", "s", ":", "o", "t", "h", "e", "r">>)
  @@ ("unrelated" :> <<"u", "n", "r", "e", "l", "a", "t", "e", "d">>)

\* Object.keys(localStorage) enumerates the keys in this order.
KeyOrder ==
  << "accounts:favs", "accounts:theme", "accounts:version", "accountsApp:settings",
     "accountsApp:preferences", "accountsApp:cache", "accounts:cache",
     "accounts:settings", "accounts:other", "unrelated" >>

\* v1Keys of migrateLocalStorageData, in the order of the array literal.
v1Keys ==
  << "accountsApp:settings", "accountsApp:preferences", "accountsApp:cache",
     "accounts:cache", "accounts:settings" >>

ACCOUNTS_PREFIX == <<"a", "c", "c", "o", "u", "n", "t", "s", ":">>

\* Toast messages (the first argument of showToast).
MSG_MIGRATED == "App updated! Your preferences have been preserved."
MSG_CLEAN == "App updated with clean settings."
MSG_INIT_FAILED == "Failed to initialize app"
MSG_LOAD_FAILED == "Failed to load accounts. Using sample data."
MSG_FAV_REMOVED == "Removed from favorites"
MSG_FAV_ADDED == "Added to favorites"

\* ------------------------------------------------------------------------
\* JavaScript strings
\* ------------------------------------------------------------------------

\* UTF-16 code units of the characters that occur in compared strings.
CharCode ==
  ("." :> 46) @@ ("0" :> 48) @@ ("1" :> 49) @@ ("2" :> 50) @@ ("3" :> 51)
  @@ ("4" :> 52) @@ ("5" :> 53) @@ ("6" :> 54) @@ ("7" :> 55) @@ ("8" :> 56)
  @@ ("9" :> 57)

\* a < b on strings: the first differing code unit decides, a proper prefix is less.
RECURSIVE StrLess(_, _)
StrLess(a, b) ==
  IF b = <<>> THEN FALSE
  ELSE IF a = <<>> THEN TRUE
  ELSE IF Head(a) = Head(b) THEN StrLess(Tail(a), Tail(b))
  ELSE CharCode[Head(a)] < CharCode[Head(b)]

\* String.prototype.startsWith
StartsWith(s, p) == Len(s) >= Len(p) /\ SubSeq(s, 1, Len(p)) = p

UpperToLower ==
  [ A |-> "a", B |-> "b", C |-> "c", D |-> "d", E |-> "e", F |-> "f", G |-> "g",
    H |-> "h", I |-> "i", J |-> "j", K |-> "k", L |-> "l", M |-> "m", N |-> "n",
    O |-> "o", P |-> "p", Q |-> "q", R |-> "r", S |-> "s", T |-> "t", U |-> "u",
    V |-> "v", W |-> "w", X |-> "x", Y |-> "y", Z |-> "z" ]

\* String.prototype.toLowerCase
ToLowerCase(s) ==
  [i \in 1..Len(s) |-> IF s[i] \in DOMAIN UpperToLower THEN UpperToLower[s[i]] ELSE s[i]]

\* String.prototype.includes
StrIncludes(s, sub) ==
  \E i \in 0..(Len(s) - Len(sub)) : SubSeq(s, i + 1, i + Len(sub)) = sub

\* ------------------------------------------------------------------------
\* JavaScript values and JSON
\* ------------------------------------------------------------------------

\* A value: its type tag, its characters (string, number) and its items (array).
Str(s) == [a |-> <<>>, s |-> s, t |-> "str"]
Num(s) == [a |-> <<>>, s |-> s, t |-> "num"]
Arr(items) == [a |-> items, s |-> <<>>, t |-> "arr"]
Null == [a |-> <<>>, s |-> <<>>, t |-> "null"]
Undefined == [a |-> <<>>, s |-> <<>>, t |-> "undef"]
Obj == [a |-> <<>>, s |-> <<>>, t |-> "obj"]

\* ToBoolean
Truthy(v) ==
  CASE v.t = "str" -> v.s # <<>>
    [] v.t = "num" -> v.s # <<"0">>
    [] v.t \in {"arr", "obj"} -> TRUE
    [] OTHER -> FALSE

\* ===
StrictEq(x, y) == x.t = y.t /\ x.s = y.s /\ x.t \notin {"arr", "obj"}

Digits == {"0", "1", "2", "3", "4", "5", "6", "7", "8", "9"}

\* The first index >= i of txt that holds character c, or 0.
RECURSIVE IndexFrom(_, _, _)
IndexFrom(txt, c, i) ==
  IF i > Len(txt) THEN 0
  ELSE IF txt[i] = c THEN i
  ELSE IndexFrom(txt, c, i + 1)

\* The first index >= i of txt that holds no digit.
RECURSIVE DigitsEnd(_, _)
DigitsEnd(txt, i) ==
  IF i > Len(txt) \/ txt[i] \notin Digits THEN i ELSE DigitsEnd(txt, i + 1)

ParseFail == [ok |-> FALSE, v |-> Undefined, nx |-> 0]

\* A string from its opening quote at txt[i], j the index of the closing quote (0: none).
ParsedString(txt, i, j) ==
  IF j = 0 THEN ParseFail
  ELSE [ok |-> TRUE, v |-> Str(SubSeq(txt, i + 1, j - 1)), nx |-> j + 1]

\* JSON.parse of the value that starts at txt[i]: [ok, v, nx], nx the index after it.
\* The grammar covers arrays, strings without escapes, unsigned integers, null
\* and the empty object, without white space.
RECURSIVE ParseValue(_, _), ParseElements(_, _, _), ParseNext(_, _, _)
ParseValue(txt, i) ==
  IF i > Len(txt) THEN ParseFail
  ELSE IF txt[i] = "\"" THEN ParsedString(txt, i, IndexFrom(txt, "\"", i + 1))
  ELSE IF txt[i] \in Digits
    THEN [ok |-> TRUE, v |-> Num(SubSeq(txt, i, DigitsEnd(txt, i) - 1)),
          nx |-> DigitsEnd(txt, i)]
  ELSE IF i + 3 <= Len(txt) /\ SubSeq(txt, i, i + 3) = <<"n", "u", "l", "l">> THEN
    [ok |-> TRUE, v |-> Null, nx |-> i + 4]
  ELSE IF txt[i] = "{" THEN
    IF i + 1 <= Len(txt) /\ txt[i + 1] = "}"
    THEN [ok |-> TRUE, v |-> Obj, nx |-> i + 2]
    ELSE ParseFail
  ELSE IF txt[i] = "[" THEN
    IF i + 1 <= Len(txt) /\ txt[i + 1] = "]"
    THEN [ok |-> TRUE, v |-> Arr(<<>>), nx |-> i + 2]
    ELSE ParseElements(txt, i + 1, <<>>)
  ELSE ParseFail

\* The elements of an array from txt[i] on, after the items already parsed.
ParseElements(txt, i, items) == ParseNext(txt, ParseValue(txt, i), items)

\* What follows the element r: a comma and more elements, or the closing bracket.
ParseNext(txt, r, items) ==
  IF ~r.ok \/ r.nx > Len(txt) THEN ParseFail
  ELSE IF txt[r.nx] = "," THEN ParseElements(txt, r.nx + 1, Append(items, r.v))
  ELSE IF txt[r.nx] = "]" THEN [ok |-> TRUE, v |-> Arr(Append(items, r.v)), nx |-> r.nx + 1]
  ELSE ParseFail

\* The value is the whole text, or JSON.parse throws.
WholeText(txt, r) ==
  IF r.ok /\ r.nx = Len(txt) + 1 THEN [ok |-> TRUE, v |-> r.v]
  ELSE [ok |-> FALSE, v |-> Undefined]

\* JSON.parse(txt): ok is FALSE when it throws a SyntaxError.
JsonParse(txt) == WholeText(txt, ParseValue(txt, 1))

\* JSON.stringify(v)
RECURSIVE JsonStringify(_), JoinItems(_)
JsonStringify(v) ==
  CASE v.t = "str" -> <<"\"">> \o v.s \o <<"\"">>
    [] v.t = "num" -> v.s
    [] v.t = "arr" -> <<"[">> \o JoinItems(v.a) \o <<"]">>
    [] v.t = "obj" -> <<"{", "}">>
    [] OTHER -> <<"n", "u", "l", "l">>

JoinItems(items) ==
  IF items = <<>> THEN <<>>
  ELSE IF Len(items) = 1 THEN JsonStringify(items[1])
  ELSE JsonStringify(items[1]) \o <<",">> \o JoinItems(Tail(items))

\* ------------------------------------------------------------------------
\* The key-value store (window.localStorage)
\* ------------------------------------------------------------------------

\* A store is a function from the keys it holds to their string values.
Has(st, k) == k \in DOMAIN st

\* What getItem(k) returns, as a value: the string, or null.
ItemValue(st, k) == IF Has(st, k) THEN Str(st[k]) ELSE Null

\* The store after setItem(k, v).
Put(st, k, v) == [x \in DOMAIN st \cup {k} |-> IF x = k THEN v ELSE st[x]]

\* A run of store calls: st the store, n the number of calls left until one throws
\* (0: none throws), ex whether a call has thrown. A call after a throw does not happen.
Run0(st, n) == [st |-> st, n |-> n, ex |-> FALSE]

CountDown(n) == IF n > 1 THEN n - 1 ELSE n

\* localStorage.getItem(k), or any other read access of the store
GetItem(m) ==
  IF m.ex THEN m
  ELSE IF m.n = 1 THEN [m EXCEPT !.ex = TRUE]
  ELSE [m EXCEPT !.n = CountDown(@)]

\* localStorage.setItem(k, v)
SetItem(m, k, v) ==
  IF m.ex THEN m
  ELSE IF m.n = 1 THEN [m EXCEPT !.ex = TRUE]
  ELSE [st |-> Put(m.st, k, v), n |-> CountDown(m.n), ex |-> FALSE]

\* localStorage.removeItem(k)
RemoveItem(m, k) ==
  IF m.ex THEN m
  ELSE IF m.n = 1 THEN [m EXCEPT !.ex = TRUE]
  ELSE [st |-> [x \in DOMAIN m.st \ {k} |-> m.st[x]], n |-> CountDown(m.n), ex |-> FALSE]

\* ------------------------------------------------------------------------
\* migrateLocalStorageData (src/app.js 145-279)
\* ------------------------------------------------------------------------

\* ["light", "dark"].includes(theme), after the truthiness test
ValidTheme(v) == Truthy(v) /\ v.s \in {LIGHT, DARK}

\* The version marker is left unwritten.
MarkVersionSkipped(m) == m

\* The version written is one below "2.0".
MarkVersionOld(m) == SetItem(m, VERSION_KEY, <<"1", ".", "9">>)

\* localStorage.setItem(CONFIG.VERSION_KEY, currentVersion) (lines 160, 234, 276)
MarkVersion(m) == SetItem(m, VERSION_KEY, APP_VERSION)

\* The parse p of the stored favourites is an array.
ParsesToArray(p) == p.ok /\ p.v.t = "arr"

\* v1 -> v2, favourites: kept when the text parses to an array, removed otherwise;
\* a falsy value (absent, empty) is left alone (lines 201-214).
MigrateFavorites(m, favs) ==
  IF ~Truthy(favs) \/ ParsesToArray(JsonParse(favs.s)) THEN m
  ELSE RemoveItem(m, FAVORITES_KEY)

\* One key of v1Keys after its getItem g: removed when its value is truthy.
RemoveIfSet(g, k) ==
  IF ~g.ex /\ Truthy(ItemValue(g.st, k)) THEN RemoveItem(g, k) ELSE g

\* v1Keys.forEach: a key whose value is truthy is removed (lines 225-230).
RECURSIVE RemoveObsolete(_, _)
RemoveObsolete(m, keys) ==
  IF keys = <<>> \/ m.ex THEN m
  ELSE RemoveObsolete(RemoveIfSet(GetItem(m), Head(keys)), Tail(keys))

\* The v1 -> v2 rules (lines 180-231) on the run m, after the reads of the theme
\* and of the favourites.
MigrateV1(m, theme, favs) ==
  RemoveObsolete(
    MigrateFavorites(IF ValidTheme(theme) THEN m ELSE RemoveItem(m, THEME_KEY), favs),
    v1Keys)

\* The end of the try block: the run m after setItem of the version, then the toast.
MainOutcome(m, path, toast) ==
  [st |-> m.st, ex |-> m.ex, path |-> path, toast |-> IF m.ex THEN "none" ELSE toast]

\* The first run also resets the theme.
FirstRunResetsTheme(m) ==
  MainOutcome(MarkVersion(RemoveItem(m, THEME_KEY)), "first", "none")

\* No version stored (lines 157-162): the current version is written, then return.
FirstRun(m) == MainOutcome(MarkVersion(m), "first", "none")

\* The try block from the read of the version on (lines 155-241); m is the run
\* after that read.
MigrateFrom(m, st, storedVersion) ==
  IF m.ex THEN MainOutcome(m, "none", "none")
  ELSE IF ~Truthy(storedVersion)
    THEN FirstRun(m)
  ELSE IF storedVersion.s = APP_VERSION THEN MainOutcome(m, "same", "none")
  ELSE IF StrLess(storedVersion.s, <<"2", ".", "0">>)
    THEN MainOutcome(
           MarkVersion(MigrateV1(GetItem(GetItem(m)), ItemValue(st, THEME_KEY),
                                 ItemValue(st, FAVORITES_KEY))),
           "v1", MSG_MIGRATED)
  ELSE MainOutcome(MarkVersion(GetItem(GetItem(m))), "other", MSG_MIGRATED)

\* The try block (lines 146-241) with the f-th store call throwing (0: none):
\* [st, ex, path, toast]. path names the branch taken.
MigrateMain(st, f) == MigrateFrom(GetItem(Run0(st, f)), st, ItemValue(st, VERSION_KEY))

\* No key is removed.
ClearKeyKept(m, k) == m

\* One key of Object.keys(localStorage) in the catch block (lines 254-256).
ClearKey(m, k) ==
  IF StartsWith(KeyChars[k], ACCOUNTS_PREFIX) /\ k \notin {THEME_KEY, FAVORITES_KEY}
  THEN RemoveItem(m, k) ELSE m

\* Object.keys(localStorage).forEach of the catch block: every held key that starts
\* with "accounts:" and is not preserved is removed (lines 253-257).
RECURSIVE ClearNamespace(_, _)
ClearNamespace(m, keys) ==
  IF keys = <<>> \/ m.ex THEN m
  ELSE ClearNamespace(ClearKey(m, Head(keys)), Tail(keys))

\* setItem inside the inner try of the catch block: a throw is swallowed.
Swallowed(m, w) == IF w.ex THEN [m EXCEPT !.n = 0] ELSE w

\* The restore of the favourites in the catch block (lines 267-274): the inner try
\* swallows the SyntaxError of JSON.parse and a throw of setItem alike.
RestoreFavorites(m, favs) ==
  IF m.ex \/ ~Truthy(favs) \/ ~JsonParse(favs.s).ok THEN m
  ELSE Swallowed(m, SetItem(m, FAVORITES_KEY, favs.s))

\* The restore of the theme in the catch block (lines 260-265).
RestoreTheme(m, theme) ==
  IF ValidTheme(theme) THEN SetItem(m, THEME_KEY, theme.s) ELSE m

\* The end of the catch block: the run m after setItem of the version, then the toast.
FallbackOutcome(m) ==
  [st |-> m.st, ex |-> m.ex, toast |-> IF m.ex THEN "none" ELSE MSG_CLEAN]

\* The catch block (lines 242-278), the safe fallback, with its f-th store call
\* throwing (0: none): [st, ex, toast]. Its store calls: the two reads of the
\* snapshot, Object.keys, the removals, the restores, the version.
MigrateFallback(st, f) ==
  FallbackOutcome(
    MarkVersion(
      RestoreFavorites(
        RestoreTheme(
          ClearNamespace(GetItem(GetItem(GetItem(Run0(st, f)))), SelectSeq(KeyOrder, LAMBDA k : Has(st, k))),
          ItemValue(st, THEME_KEY)),
        ItemValue(st, FAVORITES_KEY))))

\* What migrateLocalStorageData leaves when the catch block has run.
AfterFallback(fb) ==
  [st |-> fb.st, threw |-> fb.ex, path |-> "fallback", toast |-> fb.toast]

\* The catch block runs when the try block threw.
AfterMain(main, f2) ==
  IF ~main.ex
  THEN [st |-> main.st, threw |-> FALSE, path |-> main.path, toast |-> main.toast]
  ELSE AfterFallback(MigrateFallback(main.st, f2))

\* migrateLocalStorageData(): the try block, and the catch block when it threw.
\* [st, threw, path, toast]: threw says that the exception left the function.
MigrateLocalStorageData(st, f1, f2) == AfterMain(MigrateMain(st, f1), f2)

\* ------------------------------------------------------------------------
\* Account data (src/app.js 399-479)
\* ------------------------------------------------------------------------

\* raw.k of a parsed record: the value of the key, or undefined.
Field(raw, k) == IF k \in DOMAIN raw THEN raw[k] ELSE Undefined

\* a || b
Or(x, y) == IF Truthy(x) THEN x ELSE y

\* normalizeAccount(raw); rnd is the string String(Math.random()) gives.
NormalizeAccount(raw, rnd) ==
  [ id |-> Or(Field(raw, "id"), Or(Field(raw, "ID"), Str(rnd))),
    bank |-> Or(Field(raw, "Bank"), Or(Field(raw, "bank"),
               Str(<<"U", "n", "k", "n", "o", "w", "n", " ", "B", "a", "n", "k">>))),
    title |-> Or(Field(raw, "Title"), Or(Field(raw, "title"),
                Str(<<"A", "c", "c", "o", "u", "n", "t">>))),
    acc_no |-> Or(Field(raw, "acc_no"), Or(Field(raw, "acct_no"),
                 Or(Field(raw, "account_number"), Str(<<>>)))),
    iban |-> Or(Field(raw, "iban"), Or(Field(raw, "IBAN"), Str(<<>>))),
    currency |-> Or(Field(raw, "currency"), Or(Field(raw, "Currency"), Str(<<"P", "K", "R">>))),
    purpose |-> Or(Field(raw, "purpose"), Or(Field(raw, "Purpose"),
                  Str(<<"G", "e", "n", "e", "r", "a", "l">>))),
    note |-> Or(Field(raw, "note"), Or(Field(raw, "Note"), Str(<<>>))),
    logo |-> Or(Field(raw, "logo"), Null) ]

\* data.map(normalizeAccount)
NormalizeAll(data, rnd) == [i \in 1..Len(data) |-> NormalizeAccount(data[i], rnd)]

\* getSampleData()
SampleData ==
  <<
    [ Bank |-> Str(<<"F", "a", "y", "s", "a", "l", " ", "B", "a", "n", "k">>),
      Title |-> Str(<<"A", "l", "-", "R", "a", "h", "m", "a", "n", " ", "T", "r", "a", "d", "i", "n", "g", " ", "C", "o", ".">>),
      acc_no |-> Str(<<"4", "5", "8", "7", "1", "2", "3", "9", "0", "0", "4", "5", "6", "7", "1", "2">>),
      iban |-> Str(<<"P", "K", "3", "6", "F", "A", "Y", "S", "0", "0", "4", "5", "8", "7", "1", "2", "3", "9", "0", "0", "4", "5", "6", "7">>),
      id |-> Str(<<"1">>),
      currency |-> Str(<<"P", "K", "R">>),
      purpose |-> Str(<<"B", "u", "s", "i", "n", "e", "s", "s">>),
      logo |-> Str(<<".", "/", "a", "s", "s", "e", "t", "s", "/", "F", "a", "y", "s", "a", "l", "_", "B", "a", "n", "k", ".", "s", "v", "g">>) ],
    [ Bank |-> Str(<<"A", "l", "l", "i", "e", "d", " ", "B", "a", "n", "k">>),
      Title |-> Str(<<"B", "i", "l", "a", "l", " ", "&", " ", "S", "o", "n", "s", " ", "E", "l", "e", "c", "t", "r", "o", "n", "i", "c", "s">>),
      acc_no |-> Str(<<"7", "8", "9", "0", "1", "2", "3", "4", "5", "6", "7", "8", "9", "0", "1", "2">>),
      iban |-> Str(<<"P", "K", "7", "4", "A", "B", "P", "A", "0", "0", "7", "8", "9", "0", "1", "2", "3", "4", "5", "6", "7", "8", "9", "0">>),
      id |-> Str(<<"2">>),
      currency |-> Str(<<"P", "K", "R">>),
      purpose |-> Str(<<"B", "u", "s", "i", "n", "e", "s", "s">>),
      logo |-> Str(<<".", "/", "a", "s", "s", "e", "t", "s", "/", "a", "l", "l", "i", "e", "d", "_", "b", "a", "n", "k", ".", "s", "v", "g">>) ],
    [ Bank |-> Str(<<"J", "a", "z", "z", "C", "a", "s", "h">>),
      Title |-> Str(<<"A", "y", "e", "s", "h", "a", " ", "F", "a", "t", "i", "m", "a">>),
      acc_no |-> Str(<<"0", "3", "2", "1", "1", "2", "3", "4", "5", "6", "7">>),
      iban |-> Str(<<"P", "K", "1", "5", "J", "C", "M", "A", "0", "4", "1", "2", "9", "0", "0", "3", "2", "1", "1", "2", "3", "4", "5", "6">>),
      id |-> Str(<<"3">>),
      currency |-> Str(<<"P", "K", "R">>),
      purpose |-> Str(<<"M", "o", "b", "i", "l", "e", " ", "W", "a", "l", "l", "e", "t">>),
      logo |-> Str(<<".", "/", "a", "s", "s", "e", "t", "s", "/", "j", "a", "z", "z", "c", "a", "s", "h", ".", "s", "v", "g">>) ]
  >>

\* normalizeAccount(raw) reads raw.id first (line 431): on null that is a TypeError.
NormalizeRaises(raw) == raw = Null

\* A failed load leaves no accounts.
LoadDataNoFallback(outcome, data, rnd) ==
  IF outcome = "ok" /\ ~\E i \in 1..Len(data) : NormalizeRaises(data[i])
  THEN [accounts |-> NormalizeAll(data, rnd), failed |-> FALSE]
  ELSE [accounts |-> << >>, failed |-> TRUE]

\* The rest of loadData once fetch has settled (lines 403-423): [accounts, failed].
\* The catch block takes every outcome but "ok", and the TypeError of data.map.
LoadData(outcome, data, rnd) ==
  IF outcome = "ok" /\ ~\E i \in 1..Len(data) : NormalizeRaises(data[i])
  THEN [accounts |-> NormalizeAll(data, rnd), failed |-> FALSE]
  ELSE [accounts |-> NormalizeAll(SampleData, rnd), failed |-> TRUE]

\* ------------------------------------------------------------------------
\* Favourites (src/app.js 488-538)
\* ------------------------------------------------------------------------

\* The value loadFavorites assigns to favorites (lines 489-495); threw says that the
\* read of the store threw.
LoadedFavorites(st, threw) ==
  LET stored == ItemValue(st, FAVORITES_KEY)
  IN IF threw \/ ~Truthy(stored) THEN Arr(<<>>)
     ELSE LET p == JsonParse(stored.s)
          IN IF p.ok THEN p.v ELSE Arr(<<>>)

\* favorites.indexOf(id) on an array: the first index (from 1) of a strictly equal
\* item, or 0.
RECURSIVE IndexOfFrom(_, _, _)
IndexOfFrom(items, id, i) ==
  IF i > Len(items) THEN 0
  ELSE IF StrictEq(items[i], id) THEN i
  ELSE IndexOfFrom(items, id, i + 1)

IndexOf(items, id) == IndexOfFrom(items, id, 1)

\* favorites.splice(index, 1)
Splice(items, i) == SubSeq(items, 1, i - 1) \o SubSeq(items, i + 1, Len(items))

\* isFavorite(id) = favorites.includes(id): [ex, r]. An array and a string have an
\* includes method; on any other value the call is a TypeError.
IsFavorite(favs, id) ==
  CASE favs.t = "arr" -> [ex |-> FALSE, r |-> IndexOf(favs.a, id) > 0]
    [] favs.t = "str" -> [ex |-> FALSE, r |-> id.t = "str" /\ StrIncludes(favs.s, id.s)]
    [] OTHER -> [ex |-> TRUE, r |-> FALSE]

\* ------------------------------------------------------------------------
\* Filters and rendering (src/app.js 649-680, 929-1008)
\* ------------------------------------------------------------------------

\* searchableFields.some(field => field && field.toLowerCase().includes(term)):
\* "yes", "no", or "throw" when a truthy field has no toLowerCase method.
RECURSIVE SomeFieldMatches(_, _)
SomeFieldMatches(fields, term) ==
  IF fields = <<>> THEN "no"
  ELSE LET field == Head(fields)
       IN IF ~Truthy(field) THEN SomeFieldMatches(Tail(fields), term)
          ELSE IF field.t # "str" THEN "throw"
          ELSE IF StrIncludes(ToLowerCase(field.s), term) THEN "yes"
          ELSE SomeFieldMatches(Tail(fields), term)

\* The six fields the search looks at (lines 972-979).
SearchableFields(account) ==
  << account.bank, account.title, account.acc_no, account.iban, account.purpose,
     account.note >>

\* The search looks at the fields joined into one text.
SearchedJoined(account, filters) ==
  IF filters.search = <<>> THEN "yes"
  ELSE IF StrIncludes(
            ToLowerCase(account.bank.s \o account.title.s \o account.acc_no.s
                        \o account.iban.s \o account.purpose.s \o account.note.s),
            ToLowerCase(filters.search))
    THEN "yes" ELSE "no"

\* The search filter (lines 970-986): "yes" when there is no search text or a
\* field matches, "no", or "throw".
Searched(account, filters) ==
  IF filters.search = <<>> THEN "yes"
  ELSE SomeFieldMatches(SearchableFields(account), ToLowerCase(filters.search))

\* The currency, purpose and favourites filters (lines 988-1003), after the search
\* filter: isFavorite is asked only when the other filters let the account pass.
Selected(searched, account, filters, favs) ==
  IF searched = "throw" THEN "throw"
  ELSE IF searched = "no" THEN "drop"
  ELSE IF filters.currency # ALL /\ ~StrictEq(account.currency, Str(filters.currency))
    THEN "drop"
  ELSE IF filters.purpose # ALL /\ ~StrictEq(account.purpose, Str(filters.purpose))
    THEN "drop"
  ELSE IF ~filters.favoritesOnly THEN "keep"
  ELSE IF IsFavorite(favs, account.id).ex THEN "throw"
  ELSE IF IsFavorite(favs, account.id).r THEN "keep"
  ELSE "drop"

\* The callback of allAccounts.filter in applyFilters (lines 968-1004) for one
\* account: "keep", "drop" or "throw".
FilterAccount(account, filters, favs) ==
  Selected(Searched(account, filters), account, filters, favs)

\* allAccounts.filter(callback): [ex, list].
RECURSIVE FilterFrom(_, _, _, _, _)
FilterFrom(accounts, filters, favs, i, kept) ==
  IF i > Len(accounts) THEN [ex |-> FALSE, list |-> kept]
  ELSE IF FilterAccount(accounts[i], filters, favs) = "throw"
    THEN [ex |-> TRUE, list |-> kept]
  ELSE FilterFrom(accounts, filters, favs, i + 1,
                  IF FilterAccount(accounts[i], filters, favs) = "keep"
                  THEN Append(kept, accounts[i]) ELSE kept)

\* The filter loses the first account it keeps.
FilterAccountsBehead(accounts, filters, favs) ==
  [ex |-> FilterFrom(accounts, filters, favs, 1, <<>>).ex,
   list |-> IF FilterFrom(accounts, filters, favs, 1, <<>>).list = <<>> THEN <<>>
            ELSE Tail(FilterFrom(accounts, filters, favs, 1, <<>>).list)]

\* The filter returns the kept accounts last first.
FilterAccountsReversed(accounts, filters, favs) ==
  [ex |-> FilterFrom(accounts, filters, favs, 1, <<>>).ex,
   list |-> [i \in 1..Len(FilterFrom(accounts, filters, favs, 1, <<>>).list) |->
               FilterFrom(accounts, filters, favs, 1, <<>>).list[
                 Len(FilterFrom(accounts, filters, favs, 1, <<>>).list) + 1 - i]]]

FilterAccounts(accounts, filters, favs) == FilterFrom(accounts, filters, favs, 1, <<>>)

\* renderAccounts(accounts) and renderFavoritesStrip() build a card per account and
\* createAccountCard asks isFavorite(account.id): a render of a non-empty list throws
\* when favorites has no includes method.
RenderThrows(accounts, favs) == accounts # <<>> /\ IsFavorite(favs, accounts[1].id).ex

\* The ids of the cards a render of the list shows.
Cards(accounts) == [i \in 1..Len(accounts) |-> accounts[i].id]

\* ------------------------------------------------------------------------
\* State
\* ------------------------------------------------------------------------

VARIABLES
  store,            \* window.localStorage: key -> string
  store0,           \* the store as the session found it
  response,         \* what the fetch of accounts.json has settled with
  storage,          \* "ok": no store call throws; "dead": every call throws;
                    \* "flaky": any call may throw
  systemDark,       \* matchMedia("(prefers-color-scheme: dark)").matches
  pc,               \* init(): "start", "loading" (awaiting fetch), "ready", "failed"
  dom,              \* cacheDOMElements() has filled DOM
  toasts,           \* the messages of the toasts the last handler appended to the
                    \* toast container
  raised,           \* the last handler ended by an exception that left it
  currentTheme,
  favorites,
  allAccounts,
  filteredAccounts,
  rendered,         \* the account ids of the cards in the list container
  currentFilters,
  mig,              \* the run of migrateLocalStorageData of this session
  readLog,          \* the functions that accessed the store, in call order
  timers,           \* the pending timers of setTimeout: [id, left, arg]
  timeoutId,        \* timeoutId of the closure of debounce (0: undefined)
  timerSeq,         \* the ids setTimeout has handed out
  sinceInput,       \* time since the last input event of the search box
  lastInput,        \* the value of the last input event
  runsSinceInput,   \* evaluations of the debounced callback since that event
  searchRuns,       \* evaluations of the debounced callback since the start
  lastOp,           \* the handler that ran last
  online,           \* navigator.onLine
  isOffline,
  qr,               \* the QR modal: its aria-hidden, the info text, what the
                    \* display holds, and the images whose load is pending
  share,            \* the last run of shareAccount: the account, how the share
                    \* went, the copy it fell back to and the text of that copy
  clipboard         \* the text on the system clipboard

vars ==
  << store, store0, response, storage, systemDark, pc, dom, toasts, raised,
     currentTheme, favorites,
     allAccounts, filteredAccounts, rendered, currentFilters, mig, readLog,
     timers, timeoutId, timerSeq, sinceInput, lastInput, runsSinceInput,
     searchRuns, lastOp, online, isOffline, qr, share, clipboard >>

cardVars == << online, isOffline, qr, share, clipboard >>
sessionVars ==
  << store, dom, currentTheme, favorites, mig, readLog >>
listVars == << allAccounts, filteredAccounts, rendered, currentFilters >>
timerVars ==
  << timers, timeoutId, timerSeq, sinceInput, lastInput, runsSinceInput, searchRuns >>

\* Whether a single store call may throw (fail) under the storage mode.
MayFail(fail) == (storage = "ok" => ~fail) /\ (storage = "dead" => fail)

\* The calls of a run of store calls that may throw first under the storage mode.
\* 16 store calls is the longest run of migrateLocalStorageData's try block.
FailPoints == IF storage = "ok" THEN {0} ELSE IF storage = "dead" THEN {1} ELSE 0..16

\* ------------------------------------------------------------------------
\* showToast, theme (src/app.js 288-355, 1479-1497)
\* ------------------------------------------------------------------------

\* showToast(message): without a cached toast container it returns at once.
\* The removal of the toast after 3 s is not modelled.
ShowToast(S, msg) == IF S.dom /\ msg # "none" THEN [S EXCEPT !.toasts = @ \cup {msg}] ELSE S

\* The saved theme is ignored.
InitialThemeDefault(st, threw, prefersDark) == DEFAULT_THEME

\* The theme initializeTheme applies (lines 289-321); threw: getItem threw.
InitialTheme(st, threw, prefersDark) ==
  LET savedTheme == ItemValue(st, THEME_KEY)
      defaultTheme == IF DEFAULT_THEME = SYSTEM
                      THEN (IF prefersDark THEN DARK ELSE LIGHT)
                      ELSE DEFAULT_THEME
  IN IF threw THEN LIGHT
     ELSE IF Truthy(savedTheme) THEN savedTheme.s
     ELSE defaultTheme

\* newTheme of toggleTheme (line 345)
ToggledTheme(theme) == IF theme = LIGHT THEN DARK ELSE LIGHT

ThemeMessage(theme) ==
  IF theme = LIGHT THEN "Switched to light mode"
  ELSE IF theme = DARK THEN "Switched to dark mode"
  ELSE "Switched to <other> mode"

\* ------------------------------------------------------------------------
\* init (src/app.js 1625-1677)
\* ------------------------------------------------------------------------

\* The theme is initialized before the migration runs.
InitStepsThemeFirst ==
  << "cacheDOMElements", "initializeTheme", "migrateLocalStorageData",
     "setupOfflineDetection", "loadFavorites" >>

\* The calls of init up to the await of loadData, in order.
InitSteps ==
  << "migrateLocalStorageData", "cacheDOMElements", "initializeTheme",
     "setupOfflineDetection", "loadFavorites" >>

\* The session after migrateLocalStorageData has run with the result r; the toast
\* is the last statement of the block that completed.
Migrated(S, r) ==
  ShowToast(
    [S EXCEPT !.store = r.st,
              !.mig = [path |-> r.path, threw |-> r.threw, notice |-> r.toast],
              !.log = Append(@, "migrateLocalStorageData"),
              !.threw = r.threw],
    r.toast)

\* One call of init on the session S = [store, dom, toasts, theme, favorites, mig,
\* log, threw]; in = [f1, f2, themeFail, favFail] says which store calls throw.
InitStep(S, step, in) ==
  CASE step = "migrateLocalStorageData" ->
         Migrated(S, MigrateLocalStorageData(S.store, in.f1, in.f2))
    [] step = "cacheDOMElements" -> [S EXCEPT !.dom = TRUE]
    [] step = "initializeTheme" ->
         [S EXCEPT !.theme = InitialTheme(S.store, in.themeFail, systemDark),
                   !.log = Append(@, step)]
    [] step = "loadFavorites" ->
         [S EXCEPT !.favorites = LoadedFavorites(S.store, in.favFail),
                   !.log = Append(@, step)]
    [] step = "setupOfflineDetection" -> [S EXCEPT !.offline = ~online]
    [] OTHER -> S

\* The calls in order; an exception that leaves a call ends the sequence.
RECURSIVE InitRun(_, _, _)
InitRun(S, steps, in) ==
  IF steps = <<>> \/ S.threw THEN S
  ELSE InitRun(InitStep(S, Head(steps), in), Tail(steps), in)

Session ==
  [ store |-> store, dom |-> dom, toasts |-> {}, theme |-> currentTheme,
    favorites |-> favorites, mig |-> mig, log |-> readLog, threw |-> FALSE,
    offline |-> isOffline ]

\* init() from its start to the await of the fetch in loadData, or to its catch
\* block when a call threw.
AppInit ==
  /\ pc = "start"
  /\ \E f1 \in FailPoints :
     \E f2 \in (IF MigrateMain(store, f1).ex THEN FailPoints ELSE {0}),
        themeFail \in BOOLEAN, favFail \in BOOLEAN :
       /\ MayFail(themeFail) /\ MayFail(favFail)
       /\ \E R \in { InitRun(Session, InitSteps,
                      [f1 |-> f1, f2 |-> f2, themeFail |-> themeFail, favFail |-> favFail]) } :
          \E S \in { IF R.threw THEN ShowToast(R, MSG_INIT_FAILED) ELSE R } :
            /\ store' = S.store
            /\ dom' = S.dom
            /\ toasts' = S.toasts
            /\ currentTheme' = S.theme
            /\ favorites' = S.favorites
            /\ mig' = S.mig
            /\ readLog' = S.log
            /\ isOffline' = S.offline
            /\ pc' = IF R.threw THEN "failed" ELSE "loading"
  /\ raised' = FALSE
  /\ lastOp' = "init"
  /\ UNCHANGED << store0, response, storage, systemDark, online, qr, share, clipboard, listVars, timerVars >>

\* The assignment of filteredAccounts and the render (lines 1006-1007) after the
\* filter f = [ex, list].
Filtered(f, filtered, cards, favs) ==
  IF f.ex THEN [filtered |-> filtered, cards |-> cards, ex |-> TRUE]
  ELSE IF RenderThrows(f.list, favs)
    THEN [filtered |-> f.list, cards |-> <<>>, ex |-> TRUE]
  ELSE [filtered |-> f.list, cards |-> Cards(f.list), ex |-> FALSE]

\* applyFilters() (lines 967-1008) on the lists: [filtered, cards, ex]. When the
\* filter callback throws, filteredAccounts keeps its value; when the render throws,
\* the list container has been emptied.
ApplyFilters(accounts, filtered, cards, filters, favs) ==
  Filtered(FilterAccounts(accounts, filters, favs), filtered, cards, favs)

\* The payloads the fetch of accounts.json may deliver as a parsed array.
Accounts3 ==
  << [ id |-> Str(<<"1">>), acc_no |-> Str(<<"1", "2">>),
         currency |-> Str(<<"P", "K", "R">>), purpose |-> Str(<<"B", "i", "z">>),
         Bank |-> Str(<<"J", "a", "z", "z">>), Title |-> Str(<<"A", "l", "i">>) ],
       [ id |-> Str(<<"2">>), bank |-> Str(<<"H", "B", "L">>),
         title |-> Str(<<"Z", "e", "d">>), iban |-> Str(<<"P", "K", "1">>),
         currency |-> Str(<<"U", "S", "D">>), purpose |-> Str(<<"B", "i", "z">>),
         note |-> Str(<<"j", "a", "z", "z", " ", "p", "a", "y">>) ],
       [ Bank |-> Str(<<"A", "b", "l">>), ID |-> Str(<<"3">>),
         Currency |-> Str(<<"U", "S", "D">>) ] >>

\* The arrays accounts.json may hold: three records, none, and a null for a record.
DataSets == << Accounts3, << >>, << Null >> >>

\* What the fetch may settle with: "ok" (a parsed array, data), "reject" (fetch
\* rejected), "http" (response not ok), "badjson" (response.json() rejected),
\* "nonarray" (the body is no array).
FetchFailures == << "reject", "http", "badjson", "nonarray" >>
Responses(datasets) ==
  [i \in 1..Len(datasets) |-> [data |-> datasets[i], outcome |-> "ok"]]
    \o [i \in 1..Len(FetchFailures) |-> [data |-> << >>, outcome |-> FetchFailures[i]]]

\* The strings Math.random() may be turned into.
RandomIds == { <<"0", ".", "5">> }

\* loadData() from the settling of the fetch on, and the rest of init (lines
\* 1648-1676): the first render, then the registration of the listeners.
FetchSettledWith(responses) ==
  /\ pc = "loading"
  /\ \E k \in 1..Len(responses), rnd \in RandomIds :
       \E resp \in { responses[k] } :
       \E r \in { LoadData(resp.outcome, resp.data, rnd) } :
       \E bad \in { RenderThrows(r.accounts, favorites) } :
          /\ allAccounts' = r.accounts
          /\ filteredAccounts' = r.accounts
          /\ rendered' = IF bad THEN <<>> ELSE Cards(r.accounts)
          /\ toasts' = (IF r.failed /\ dom THEN {MSG_LOAD_FAILED} ELSE {})
                        \cup (IF bad /\ dom THEN {MSG_INIT_FAILED} ELSE {})
          /\ pc' = IF bad THEN "failed" ELSE "ready"
          /\ response' = resp
  /\ raised' = FALSE
  /\ lastOp' = "loadData"
  /\ UNCHANGED << store, store0, storage, systemDark, cardVars, dom, currentTheme, favorites,
                  currentFilters, mig, readLog, timerVars >>

\* The fetch of accounts.json settles.
FetchSettled == FetchSettledWith(Responses(DataSets))

\* toggleTheme() (lines 344-355): the public API (from the creation of App on),
\* the header button and Ctrl/Cmd + D.
ToggleTheme ==
  /\ pc # "start"
  /\ \E fail \in BOOLEAN :
       /\ MayFail(fail)
       /\ \E newTheme \in { ToggledTheme(currentTheme) } :
            /\ currentTheme' = newTheme
            /\ store' = IF fail THEN store ELSE Put(store, THEME_KEY, newTheme)
            /\ toasts' = IF dom THEN {ThemeMessage(newTheme)} ELSE {}
  /\ raised' = FALSE
  /\ lastOp' = "toggleTheme"
  /\ UNCHANGED << store0, response, storage, systemDark, cardVars, pc, dom, favorites, listVars, mig, readLog,
                  timerVars >>

\* The save writes nothing.
SaveFavoritesDropped(st, favs, fail) == st

\* saveFavorites() (lines 501-507): the store after it.
SaveFavorites(st, favs, fail) ==
  IF fail THEN st ELSE Put(st, FAVORITES_KEY, JsonStringify(favs))

\* The accounts whose cards are on the page: those of the list container and those
\* of the favourites strip (the first MAX_FAVORITES_DISPLAY favourite accounts).
MAX_FAVORITES_DISPLAY == 3

\* items.slice(0, n)
Slice(items, n) == SubSeq(items, 1, IF Len(items) < n THEN Len(items) ELSE n)

\* favoriteAccounts.slice(0, MAX_FAVORITES_DISPLAY) of renderFavoritesStrip
StripAccounts(accounts, favs) ==
  Slice(SelectSeq(accounts, LAMBDA x : IsFavorite(favs, x.id).r), MAX_FAVORITES_DISPLAY)

\* The ids of a sequence of cards or accounts.
IdsOf(ids) == { ids[i] : i \in 1..Len(ids) }

\* The ids of the accounts with a card on the page.
OnPage(accounts, cards, favs) ==
  IdsOf(cards) \cup IdsOf(Cards(StripAccounts(accounts, favs)))

\* The new value of favorites after the indexOf/splice/push of toggleFavorite
\* (lines 513-521): [ex, favs, msg]. Only an array has splice and push.
ToggledFavorites(favs, id) ==
  IF favs.t # "arr" THEN [ex |-> TRUE, favs |-> favs, msg |-> "none"]
  ELSE LET index == IndexOf(favs.a, id)
       IN IF index > 0
          THEN [ex |-> FALSE, favs |-> Arr(Splice(favs.a, index)), msg |-> MSG_FAV_REMOVED]
          ELSE [ex |-> FALSE, favs |-> Arr(Append(favs.a, id)), msg |-> MSG_FAV_ADDED]

\* toggleFavorite(accountId) (lines 512-531), from a click on the star of a card.
ToggleFavorite ==
  /\ pc = "ready"
  /\ \E id \in OnPage(allAccounts, rendered, favorites), fail \in BOOLEAN :
       /\ MayFail(fail)
       /\ \E t \in { ToggledFavorites(favorites, id) } :
          \E a \in { IF ~t.ex /\ currentFilters.favoritesOnly
                     THEN ApplyFilters(allAccounts, filteredAccounts, rendered,
                                       currentFilters, t.favs)
                     ELSE [filtered |-> filteredAccounts, cards |-> rendered,
                           ex |-> FALSE] } :
            /\ favorites' = t.favs
            /\ toasts' = IF dom /\ t.msg # "none" THEN {t.msg} ELSE {}
            /\ store' = IF t.ex THEN store ELSE SaveFavorites(store, t.favs, fail)
            /\ filteredAccounts' = a.filtered
            /\ rendered' = a.cards
            /\ raised' = (t.ex \/ a.ex)
  /\ lastOp' = "toggleFavorite"
  /\ UNCHANGED << store0, response, storage, systemDark, cardVars, pc, dom, currentTheme, allAccounts,
                  currentFilters, mig, readLog, timerVars >>

\* App.clearFavorites() (lines 1688-1693): the public API. updateAllFavoriteButtons
\* is defined nowhere, so the call ends in a ReferenceError after the save.
ClearFavorites ==
  /\ pc # "start"
  /\ \E fail \in BOOLEAN :
       /\ MayFail(fail)
       /\ favorites' = Arr(<<>>)
       /\ store' = SaveFavorites(store, Arr(<<>>), fail)
  /\ raised' = TRUE
  /\ toasts' = {}
  /\ lastOp' = "clearFavorites"
  /\ UNCHANGED << store0, response, storage, systemDark, cardVars, pc, dom, currentTheme, listVars, mig,
                  readLog, timerVars >>

\* ------------------------------------------------------------------------
\* Card actions: QR modal, share, clipboard, offline detection
\* (src/app.js 364-389, 1102-1213, 1438-1470)
\* ------------------------------------------------------------------------

\* The image loads that may be pending at a time.
MaxPending == 2

\* CONFIG.SHARE_BASE_URL: origin and path of the page.
SHARE_BASE_URL == <<"/">>

\* The QR modal of index.html before showQRModal has touched it (asked: the
\* account of the last call of showQRModal), and shareAccount before its first run.
QRClosed ==
  [asked |-> Null, hidden |-> TRUE, info |-> <<>>, display |-> "empty", image |-> <<>>,
   loads |-> <<>>]
NoShare == [account |-> Null, went |-> "none", fallback |-> "none", copied |-> <<>>]

\* `${v}` of a template literal.
Text(v) ==
  CASE v.t \in {"str", "num"} -> v.s
    [] v.t = "null" -> <<"n", "u", "l", "l">>
    [] v.t = "undef" -> <<"u", "n", "d", "e", "f", "i", "n", "e", "d">>
    [] OTHER -> <<"[", "o", "b", "j", "e", "c", "t", "]">>

\* shareData.url and fallbackText of shareAccount (lines 1445, 1463-1465).
ShareUrl(account) ==
  SHARE_BASE_URL \o <<"?", "s", "h", "a", "r", "e", "=">> \o Text(account.id)
FallbackText(account) ==
  Text(account.bank) \o <<" ", "-", " ">> \o Text(account.title) \o <<"\n">>
    \o (IF Truthy(account.acc_no)
        THEN <<"A", "c", "c", "o", "u", "n", "t", ":", " ">> \o Text(account.acc_no) \o <<"\n">>
        ELSE <<>>)
    \o (IF Truthy(account.iban)
        THEN <<"I", "B", "A", "N", ":", " ">> \o Text(account.iban)
        ELSE <<>>)

\* copyToClipboard(text, label) with the clipboard clip; written: the write (or
\* execCommand) succeeded. It catches whatever the write throws.
CopyToClipboard(clip, text, label, written) ==
  IF text = <<>>
  THEN [clip |-> clip,
        toast |-> IF label = "Share link" THEN "No share link to copy"
                  ELSE "No account details to copy"]
  ELSE IF written
  THEN [clip |-> text,
        toast |-> IF label = "Share link" THEN "Share link copied to clipboard"
                  ELSE "Account details copied to clipboard"]
  ELSE [clip |-> clip,
        toast |-> IF label = "Share link" THEN "Failed to copy share link"
                  ELSE "Failed to copy account details"]

\* How the Web Share API may go: it is missing or canShare says no
\* ("unsupported"), the share resolves, the user dismisses the share sheet
\* (AbortError), the share is rejected for another reason.
ShareWays == <<"unsupported", "resolved", "AbortError", "NotAllowedError", "DataError">>

\* The fallback is skipped for every rejection.
ShareFallbackNever(way) == "none"

\* The copy shareAccount falls back to (lines 1449-1468).
ShareFallback(way) ==
  CASE way = "unsupported" -> "Share link"
    [] way \in {"resolved", "AbortError"} -> "none"
    [] OTHER -> "Account details"

\* The accounts whose card is in the list container.
CardAccounts == SelectSeq(allAccounts, LAMBDA x : x.id \in IdsOf(rendered))

\* shareAccount(account) (lines 1438-1470), from a click on Share of a card, to
\* the settling of its promise.
ShareAccount ==
  /\ pc = "ready"
  /\ \E i \in 1..Len(CardAccounts), w \in 1..Len(ShareWays), written \in BOOLEAN :
       \E account \in { CardAccounts[i] }, label \in { ShareFallback(ShareWays[w]) } :
       \E text \in { CASE label = "Share link" -> ShareUrl(account)
                       [] label = "Account details" -> FallbackText(account)
                       [] OTHER -> <<>> } :
       \E c \in { IF label = "none"
                  THEN [clip |-> clipboard,
                        toast |-> IF ShareWays[w] = "resolved" THEN "Shared successfully"
                                  ELSE "none"]
                  ELSE CopyToClipboard(clipboard, text, label, written) } :
         /\ label = "none" => written
         /\ clipboard' = c.clip
         /\ toasts' = IF dom /\ c.toast # "none" THEN {c.toast} ELSE {}
         /\ share' = [account |-> account.id, went |-> ShareWays[w], fallback |-> label,
                      copied |-> text]
  /\ raised' = FALSE
  /\ lastOp' = "shareAccount"
  /\ UNCHANGED << sessionVars, store0, response, storage, systemDark, pc, listVars, timerVars,
                  online, isOffline, qr >>

\* The image is requested offline as well.
GenerateQRCodeAlways(q, data, offline) ==
  [q EXCEPT !.display = "generating", !.image = <<>>, !.loads = Append(@, data)]

\* generateQRCode(data, container) (lines 1173-1203) on the modal q: offline it
\* leaves the message and requests nothing; online it sets img.src, and the
\* load of the image is pending.
GenerateQRCode(q, data, offline) ==
  IF offline
  THEN [q EXCEPT !.display = "offline", !.image = <<>>]
  ELSE [q EXCEPT !.display = "generating", !.image = <<>>, !.loads = Append(@, data)]

\* showQRModal(account) (lines 1145-1168), from a click on QR Code of a card.
ShowQRModal ==
  /\ pc = "ready"
  /\ dom
  /\ \E i \in 1..Len(CardAccounts) :
       \E account \in { CardAccounts[i] } :
       \E qrData \in { Or(account.iban, account.acc_no) } :
         IF ~Truthy(qrData)
         THEN /\ toasts' = {"No account number or IBAN available for QR code"}
              /\ qr' = [qr EXCEPT !.asked = account.id]
         ELSE /\ isOffline \/ Len(qr.loads) < MaxPending
              /\ toasts' = {}
              /\ qr' = [GenerateQRCode(
                          [qr EXCEPT !.asked = account.id,
                                     !.info = Text(account.bank) \o <<" ", "-", " ">>
                                                \o Text(qrData)],
                          Text(qrData), isOffline)
                        EXCEPT !.hidden = FALSE]
  /\ raised' = FALSE
  /\ lastOp' = "showQRModal"
  /\ UNCHANGED << sessionVars, store0, response, storage, systemDark, pc, listVars, timerVars,
                  online, isOffline, share, clipboard >>

\* img.onload and img.onerror of a pending image (lines 1191-1199): the callback
\* writes to the display whatever the modal shows by then.
ImageSettled ==
  /\ \E k \in 1..Len(qr.loads), loaded \in BOOLEAN :
       qr' = [qr EXCEPT !.display = IF loaded THEN "image" ELSE "failed",
                        !.image = IF loaded THEN qr.loads[k] ELSE <<>>,
                        !.loads = Splice(@, k)]
  /\ toasts' = {}
  /\ raised' = FALSE
  /\ lastOp' = "image"
  /\ UNCHANGED << sessionVars, store0, response, storage, systemDark, pc, listVars, timerVars,
                  online, isOffline, share, clipboard >>

\* closeQRModal() (lines 1208-1213): Escape, the close button, the backdrop.
CloseQRModal ==
  /\ pc = "ready"
  /\ dom
  /\ ~qr.hidden
  /\ qr' = [qr EXCEPT !.hidden = TRUE]
  /\ toasts' = {}
  /\ raised' = FALSE
  /\ lastOp' = "closeQRModal"
  /\ UNCHANGED << sessionVars, store0, response, storage, systemDark, pc, listVars, timerVars,
                  online, isOffline, share, clipboard >>

\* updateOnlineStatus() (lines 365-384) on an online or offline event of the
\* window; the listeners exist once init has called setupOfflineDetection.
UpdateOnlineStatus ==
  /\ \E k \in 1..Len(readLog) : readLog[k] = "initializeTheme"
  /\ online' = ~online
  /\ isOffline' = ~online'
  /\ toasts' = {}
  /\ raised' = FALSE
  /\ lastOp' = "updateOnlineStatus"
  /\ UNCHANGED << sessionVars, store0, response, storage, systemDark, pc, listVars, timerVars,
                  qr, share, clipboard >>

\* ------------------------------------------------------------------------
\* Search and filter listeners (src/app.js 86-92, 1013-1069)
\* ------------------------------------------------------------------------

\* The values of the purpose select.
PurposeOptions(accounts) ==
  { ALL } \cup { accounts[i].purpose.s : i \in { j \in 1..Len(accounts) : Truthy(accounts[j].purpose) } }

\* The returned function without its clearTimeout.
DebouncedUncancelled(pending, tid, seq, value, delay) ==
  [ timers |-> pending \cup { [id |-> seq + 1, left |-> delay, arg |-> value] },
    timeoutId |-> seq + 1,
    seq |-> seq + 1 ]

\* The function debounce returns (lines 88-91), called with value: clearTimeout
\* of the timer timeoutId names, then setTimeout(..., delay).
Debounced(pending, tid, seq, value, delay) ==
  [ timers |-> { t \in pending : t.id # tid } \cup { [id |-> seq + 1, left |-> delay, arg |-> value] },
    timeoutId |-> seq + 1,
    seq |-> seq + 1 ]

\* An input event of the search box (lines 1023-1025).
SearchInput ==
  /\ pc = "ready"
  /\ timerSeq < MaxInputs
  /\ \E value \in { <<>>, <<"j", "A">> } :
       \E d \in { Debounced(timers, timeoutId, timerSeq, value, DEBOUNCE_DELAY) } :
          /\ timers' = d.timers
          /\ timeoutId' = d.timeoutId
          /\ timerSeq' = d.seq
          /\ lastInput' = value
  /\ sinceInput' = 0
  /\ runsSinceInput' = 0
  /\ raised' = FALSE
  /\ toasts' = {}
  /\ lastOp' = "input"
  /\ UNCHANGED << sessionVars, store0, response, storage, systemDark, cardVars, pc, listVars, searchRuns >>

\* A timer of the debounced search comes due: the callback of setupSearch (lines
\* 1018-1021) sets the search text and applies the filters.
DebounceFire ==
  /\ \E t \in timers :
       /\ t.left = 0
       /\ timers' = timers \ {t}
       /\ \E filters \in { [currentFilters EXCEPT !.search = t.arg] } :
          \E a \in { ApplyFilters(allAccounts, filteredAccounts, rendered, filters,
                                  favorites) } :
            /\ currentFilters' = filters
            /\ filteredAccounts' = a.filtered
            /\ rendered' = a.cards
            /\ raised' = a.ex
  /\ runsSinceInput' = runsSinceInput + 1
  /\ searchRuns' = searchRuns + 1
  /\ toasts' = {}
  /\ lastOp' = "debouncedSearch"
  /\ UNCHANGED << sessionVars, store0, response, storage, systemDark, cardVars, pc, allAccounts, timeoutId,
                  timerSeq, sinceInput, lastInput >>

\* Time passes by d; a due timer runs before time passes on.
Tick ==
  /\ timers # {}
  /\ \E d \in { 125, 250 } :
       /\ \A t \in timers : t.left >= d
       /\ timers' = { [t EXCEPT !.left = @ - d] : t \in timers }
       /\ sinceInput' = sinceInput + d
  /\ UNCHANGED << sessionVars, store0, response, storage, systemDark, cardVars, pc, raised, toasts, listVars,
                  timeoutId, timerSeq, lastInput, runsSinceInput, searchRuns, lastOp >>

\* A listener of setupFilters has set the criteria to filters, then applyFilters().
FiltersChanged(filters, op) ==
  /\ pc = "ready"
  /\ \E a \in { ApplyFilters(allAccounts, filteredAccounts, rendered, filters, favorites) } :
       /\ currentFilters' = filters
       /\ filteredAccounts' = a.filtered
       /\ rendered' = a.cards
       /\ raised' = a.ex
  /\ toasts' = {}
  /\ lastOp' = op
  /\ UNCHANGED << sessionVars, store0, response, storage, systemDark, cardVars, pc, allAccounts, timerVars >>

\* A click on a currency chip (lines 1037-1045).
CurrencyClick ==
  \E c \in { ALL, <<"U", "S", "D">> } : FiltersChanged([currentFilters EXCEPT !.currency = c], "currency")

\* A change of the purpose select (lines 1051-1054).
PurposeChange ==
  \E p \in PurposeOptions(allAccounts) : FiltersChanged([currentFilters EXCEPT !.purpose = p], "purpose")

\* A click on the favourites toggle (lines 1060-1067).
FavoritesOnlyClick ==
  FiltersChanged([currentFilters EXCEPT !.favoritesOnly = ~@], "favoritesOnly")

\* ------------------------------------------------------------------------
\* Initial states
\* ------------------------------------------------------------------------

\* A store built from the values chosen per key; a choice is << >> (the key is
\* absent) or << value >>.
StoreOf(choice) ==
  [k \in { x \in DOMAIN choice : choice[x] # <<>> } |-> choice[k][1]]

\* Stored favourites: none, empty, arrays (also with a repeated id and with an item
\* that is no string), JSON that is no array, and text that is no JSON.
FavoritesChoices ==
  { <<>>, << <<>> >>,
    << <<"[", "]">> >>,
    << <<"[", "\"", "1", "\"", "]">> >>,
    << <<"[", "\"", "2", "\"", ",", "\"", "1", "\"", "]">> >>,
    << <<"[", "\"", "1", "\"", ",", "\"", "1", "\"", "]">> >>,
    << <<"[", "1", "]">> >>,
    << <<"{", "}">> >>,
    << <<"n", "u", "l", "l">> >>,
    << <<"\"", "1", "\"">> >>,
    << <<"[", "\"", "1", "\"">> >> }

\* The other keys of the store: legacy keys and foreign keys.
OtherChoices ==
  { [k \in {} |-> <<>>],
    [k \in { v1Keys[i] : i \in 1..Len(v1Keys) } |-> <<"x">>],
    ("accounts:cache" :> <<>>) @@ ("accounts:other" :> <<"x">>) @@ ("unrelated" :> <<"x">>) }

InitStores ==
  { StoreOf((VERSION_KEY :> v) @@ (THEME_KEY :> t) @@ (FAVORITES_KEY :> f)) @@ o :
      v \in { <<>>, << <<>> >>, << <<"1", ".", "0">> >>, << <<"2", ".", "0">> >>,
              << <<"3", ".", "0">> >>, << <<"1", "0", ".", "0">> >> },
      t \in { <<>>, << <<>> >>, << LIGHT >>, << DARK >>, << <<"b", "l", "u", "e">> >> },
      f \in FavoritesChoices, o \in OtherChoices }

\* The module state of app.js as the IIFE leaves it (lines 55-68).
InitMemory ==
  /\ pc = "start"
  /\ store0 = store
  /\ response = [outcome |-> "none", data |-> << >>]
  /\ dom = FALSE
  /\ toasts = {}
  /\ raised = FALSE
  /\ currentTheme = LIGHT
  /\ favorites = Arr(<<>>)
  /\ allAccounts = <<>>
  /\ filteredAccounts = <<>>
  /\ rendered = <<>>
  /\ currentFilters = [search |-> <<>>, currency |-> ALL, purpose |-> ALL, favoritesOnly |-> FALSE]
  /\ mig = [path |-> "notrun", threw |-> FALSE, notice |-> "none"]
  /\ readLog = <<>>
  /\ timers = {}
  /\ timeoutId = 0
  /\ timerSeq = 0
  /\ sinceInput = 0
  /\ lastInput = <<>>
  /\ runsSinceInput = 0
  /\ searchRuns = 0
  /\ lastOp = "none"
  /\ isOffline = FALSE
  /\ qr = QRClosed
  /\ share = NoShare
  /\ clipboard = <<>>

\* The stores a session of the whole app starts from: the current version, and a
\* well-formed or damaged favourites value.
SessionStores ==
  { StoreOf((VERSION_KEY :> << APP_VERSION >>) @@ (THEME_KEY :> t) @@ (FAVORITES_KEY :> f)) :
      t \in { <<>>, << DARK >> },
      f \in { <<>>,
              << <<"[", "\"", "2", "\"", ",", "\"", "1", "\"", "]">> >>,
              << <<"[", "\"", "1", "\"", ",", "\"", "1", "\"", "]">> >>,
              << <<"\"", "1", "\"">> >> } }

\* The stores under which any store call may throw.
FlakyStores ==
  { StoreOf((VERSION_KEY :> v) @@ (THEME_KEY :> t) @@ (FAVORITES_KEY :> f)) @@ o :
      v \in { <<>>, << <<"1", ".", "0">> >>, << <<"3", ".", "0">> >> },
      t \in { << DARK >>, << <<"b", "l", "u", "e">> >> },
      f \in { << <<"[", "\"", "1", "\"", "]">> >>, << <<"{", "}">> >>,
              << <<"[", "\"", "1", "\"">> >> },
      o \in OtherChoices }

\* The favourites and the filters of the running app, from a store of the current
\* version.
Init ==
  /\ store \in SessionStores
  /\ storage \in {"ok", "dead"}
  /\ systemDark = FALSE
  /\ online = TRUE
  /\ InitMemory

Next ==
  \/ AppInit
  \/ FetchSettled
  \/ ToggleFavorite
  \/ ClearFavorites
  \/ CurrencyClick
  \/ PurposeChange
  \/ FavoritesOnlyClick

Spec == Init /\ [][Next]_vars

\* The startup from any store, with a store that works, that throws on every call
\* and that throws on some call.
InitStartup ==
  /\ \/ store \in InitStores /\ storage \in {"ok", "dead"}
     \/ store \in FlakyStores /\ storage = "flaky"
  /\ systemDark = FALSE
  /\ online = TRUE
  /\ InitMemory

NextStartup ==
  \/ AppInit
  \/ FetchSettled
  \/ ToggleTheme

SpecStartup == InitStartup /\ [][NextStartup]_vars

\* The search box of the running app.
InitSearch ==
  /\ store = StoreOf((VERSION_KEY :> << APP_VERSION >>)
                     @@ (FAVORITES_KEY :> << <<"[", "\"", "2", "\"", "]">> >>))
  /\ storage = "ok"
  /\ systemDark = FALSE
  /\ online = TRUE
  /\ InitMemory

SpecSearch ==
  InitSearch
    /\ [][AppInit \/ FetchSettled \/ SearchInput \/ DebounceFire \/ Tick
            \/ FavoritesOnlyClick]_vars

\* The inputs of applyFilters: search texts (none; in a bank and in a note, in
\* another case; in an IBAN; across the end of one field and the start of the next;
\* in a purpose; the end of one field, a space and the start of the next),
\* currencies, favourites.
FilterSearches ==
  { <<>>, <<"j", "A">>, <<"p", "k">>, <<"z", "A">>, <<"B", "I", "Z">>, <<"Z", " ", "a">> }
FilterCurrencies == { ALL, <<"U", "S", "D">>, <<"P", "K", "R">> }
FilterFavorites ==
  { Arr(<<>>), Arr(<<Str(<<"1">>)>>), Arr(<<Str(<<"3">>), Str(<<"2">>)>>),
    Arr(<<Str(<<"9">>)>>) }

\* The module state of the running app with the accounts, the criteria and the
\* favourites given: init has completed from a store of the current version, and
\* a search text has come from the search box through the debounced callback.
Running(accounts, filters, favs) ==
  /\ pc = "ready"
  /\ store0 = store
  /\ dom = TRUE
  /\ toasts = {}
  /\ raised = FALSE
  /\ currentTheme = DEFAULT_THEME
  /\ favorites = favs
  /\ allAccounts = accounts
  /\ filteredAccounts = FilterAccounts(accounts, filters, favs).list
  /\ rendered = Cards(FilterAccounts(accounts, filters, favs).list)
  /\ currentFilters = filters
  /\ mig = [path |-> "same", threw |-> FALSE, notice |-> "none"]
  /\ readLog = << "migrateLocalStorageData", "initializeTheme", "loadFavorites" >>
  /\ timers = {}
  /\ timeoutId = (IF filters.search = <<>> THEN 0 ELSE 1)
  /\ timerSeq = (IF filters.search = <<>> THEN 0 ELSE 1)
  /\ sinceInput = (IF filters.search = <<>> THEN 0 ELSE DEBOUNCE_DELAY)
  /\ lastInput = filters.search
  /\ runsSinceInput = (IF filters.search = <<>> THEN 0 ELSE 1)
  /\ searchRuns = (IF filters.search = <<>> THEN 0 ELSE 1)
  /\ lastOp = "none"
  /\ isOffline = ~online
  /\ qr = QRClosed
  /\ share = NoShare
  /\ clipboard = <<>>

\* applyFilters as a function of its inputs: the app is running with the accounts
\* of the payload, any criteria and any favourites, the list filtered by them.
InitFilter ==
  /\ storage = "ok"
  /\ systemDark = FALSE
  /\ online = TRUE
  /\ \E d \in { Accounts3 }, rnd \in RandomIds, fav \in FilterFavorites :
       \E search \in FilterSearches, currency \in FilterCurrencies,
          purpose \in PurposeOptions(NormalizeAll(d, rnd)), favoritesOnly \in BOOLEAN :
         \E filters \in { [search |-> search, currency |-> currency,
                           purpose |-> purpose, favoritesOnly |-> favoritesOnly] } :
           /\ store = StoreOf((VERSION_KEY :> << APP_VERSION >>)
                              @@ (FAVORITES_KEY :> << JsonStringify(fav) >>))
           /\ response = [outcome |-> "ok", data |-> d]
           /\ Running(NormalizeAll(d, rnd), filters, fav)

SpecFilter == InitFilter /\ [][CurrencyClick \/ PurposeChange \/ FavoritesOnlyClick]_vars

\* A call of migrateLocalStorageData() on its own, the first or a later one.
Migrate ==
  /\ pc = "start"
  /\ Len(readLog) < MaxMigrations
  /\ \E f1 \in FailPoints :
     \E f2 \in (IF MigrateMain(store, f1).ex THEN FailPoints ELSE {0}) :
     \E S \in { Migrated(Session, MigrateLocalStorageData(store, f1, f2)) } :
       /\ store' = S.store
       /\ mig' = S.mig
       /\ readLog' = S.log
       /\ toasts' = S.toasts
       /\ raised' = S.threw
  /\ lastOp' = "migrate"
  /\ UNCHANGED << store0, response, storage, systemDark, cardVars, pc, dom, currentTheme,
                  favorites, listVars, timerVars >>

\* migrateLocalStorageData as a function of the store, called again and again.
InitMigrate ==
  /\ store \in InitStores
  /\ storage \in {"ok", "dead"}
  /\ systemDark = FALSE
  /\ online = TRUE
  /\ InitMemory

SpecMigrate == InitMigrate /\ [][Migrate]_vars

\* Raw records of accounts.json for normalizeAccount: the record of the README
\* example, a null, records that set a key and its capitalized alias, values
\* that are no strings, null values, no key at all, and the acc_no aliases.
RawRecords ==
  << [ acc_no |-> Str(<<"1", "2", "3", "4", "5", "6", "7", "8", "9", "0", "1", "2">>),
       Bank |-> Str(<<"X">>) ],
     Null,
     [ bank |-> Str(<<"a">>), title |-> Str(<<"a">>),
       Bank |-> Str(<<"B">>), Title |-> Str(<<"B">>) ],
     [ id |-> Str(<<"a">>), iban |-> Str(<<"a">>), currency |-> Str(<<"a">>),
       purpose |-> Str(<<"a">>), note |-> Str(<<"a">>),
       ID |-> Str(<<"B">>), Currency |-> Str(<<"B">>), IBAN |-> Str(<<"B">>),
       Purpose |-> Str(<<"B">>), Note |-> Str(<<"B">>) ],
     [ id |-> Num(<<"7">>), currency |-> Num(<<"5">>), note |-> Num(<<"0">>) ],
     [ id |-> Null, bank |-> Null, title |-> Str(<<>>), logo |-> Null ],
     [ k \in {} |-> Null ],
     [ logo |-> Str(<<"l", ".", "p", "n", "g">>),
       acct_no |-> Str(<<"3", "4">>), account_number |-> Str(<<"5", "6">>) ] >>

\* The arrays of raw records: each record alone, and two arrays of two records.
RawDataSets ==
  [i \in 1..Len(RawRecords) |-> << RawRecords[i] >>]
    \o << << RawRecords[1], RawRecords[3] >>, << RawRecords[5], RawRecords[2] >> >>

\* The fetch settles with an array of raw records, or fails.
FetchSettledRaw == FetchSettledWith(Responses(RawDataSets))

\* The startup of a session on a current store, the fetch delivering raw records.
InitNormalize ==
  /\ store \in { StoreOf((VERSION_KEY :> << APP_VERSION >>) @@ (THEME_KEY :> t)
                           @@ (FAVORITES_KEY :> f)) :
                   t \in { <<>>, << LIGHT >>, << DARK >> },
                   f \in { <<>>, << <<"[", "]">> >>,
                           << <<"[", "\"", "2", "\"", ",", "\"", "1", "\"", "]">> >> } }
  /\ storage \in {"ok", "dead"}
  /\ systemDark = FALSE
  /\ online = TRUE
  /\ InitMemory

SpecNormalize == InitNormalize /\ [][AppInit \/ FetchSettledRaw]_vars

\* ------------------------------------------------------------------------
\* src/app_backup.js: the earlier version of the app
\* ------------------------------------------------------------------------

\* normalizeAccount(raw) of app_backup.js (lines 142-153): that of app.js without
\* the logo.
BackupNormalizeAccount(raw, rnd) ==
  [k \in DOMAIN NormalizeAccount(raw, rnd) \ {"logo"} |-> NormalizeAccount(raw, rnd)[k]]

\* The rest of loadData of app_backup.js once fetch has settled (lines 113-136):
\* [accounts, failed]. The catch block assigns what getSampleData() returns.
BackupLoadData(outcome, data, rnd) ==
  IF outcome = "ok" /\ ~\E i \in 1..Len(data) : NormalizeRaises(data[i])
  THEN [accounts |-> [i \in 1..Len(data) |-> BackupNormalizeAccount(data[i], rnd)],
        failed |-> FALSE]
  ELSE [accounts |-> SampleData, failed |-> TRUE]

\* init() of app_backup.js from its start to the await of the fetch (lines
\* 987-997): it has no migration and no theme.
BackupInit ==
  /\ pc = "start"
  /\ \E favFail \in BOOLEAN :
       /\ MayFail(favFail)
       /\ favorites' = LoadedFavorites(store, favFail)
  /\ dom' = TRUE
  /\ readLog' = Append(readLog, "loadFavorites")
  /\ pc' = "loading"
  /\ toasts' = {}
  /\ raised' = FALSE
  /\ lastOp' = "init"
  /\ UNCHANGED << store, store0, response, storage, systemDark, cardVars, currentTheme, mig,
                  listVars, timerVars >>

\* loadData() of app_backup.js from the settling of the fetch on, and the first
\* render of init (lines 997-1002); init catches nothing.
BackupFetchSettled ==
  /\ pc = "loading"
  /\ \E k \in 1..Len(Responses(RawDataSets)), rnd \in RandomIds :
       \E resp \in { Responses(RawDataSets)[k] } :
       \E r \in { BackupLoadData(resp.outcome, resp.data, rnd) } :
       \E bad \in { RenderThrows(r.accounts, favorites) } :
          /\ allAccounts' = r.accounts
          /\ filteredAccounts' = r.accounts
          /\ rendered' = IF bad THEN <<>> ELSE Cards(r.accounts)
          /\ toasts' = IF r.failed THEN {MSG_LOAD_FAILED} ELSE {}
          /\ pc' = IF bad THEN "failed" ELSE "ready"
          /\ raised' = bad
          /\ response' = resp
  /\ lastOp' = "loadData"
  /\ UNCHANGED << store, store0, storage, systemDark, cardVars, dom, currentTheme, favorites,
                  currentFilters, mig, readLog, timerVars >>

SpecBackup == InitNormalize /\ [][BackupInit \/ BackupFetchSettled]_vars

\* The search filter of applyFilters of app_backup.js (lines 557-574): the six
\* fields joined by a space into one text; join turns undefined and null into ''.
BackupSearched(account, filters) ==
  IF filters.search = <<>> THEN "yes"
  ELSE LET part(k) == IF k \in DOMAIN account /\ account[k].t \notin {"null", "undef"}
                      THEN Text(account[k]) ELSE <<>>
       IN IF StrIncludes(
               ToLowerCase(part("bank") \o <<" ">> \o part("title") \o <<" ">>
                           \o part("acc_no") \o <<" ">> \o part("iban") \o <<" ">>
                           \o part("purpose") \o <<" ">> \o part("note")),
               ToLowerCase(filters.search))
          THEN "yes" ELSE "no"

\* allAccounts.filter(callback) of app_backup.js (lines 556-598); the currency,
\* purpose and favourites tests are those of app.js.
BackupFilterAccounts(accounts, filters, favs) ==
  SelectSeq(accounts,
            LAMBDA x : Selected(BackupSearched(x, filters), x, filters, favs) = "keep")

\* The running app with the three accounts on the page, no filter and no
\* favourite, online or offline, for the buttons of the cards.
InitCards ==
  /\ storage = "ok"
  /\ systemDark = FALSE
  /\ online \in BOOLEAN
  /\ store = StoreOf((VERSION_KEY :> << APP_VERSION >>))
  /\ response = [data |-> Accounts3, outcome |-> "ok"]
  /\ \E rnd \in RandomIds :
       Running(NormalizeAll(Accounts3, rnd),
               [search |-> <<>>, currency |-> ALL, purpose |-> ALL, favoritesOnly |-> FALSE],
               Arr(<<>>))

SpecQR ==
  InitCards /\ [][ShowQRModal \/ ImageSettled \/ CloseQRModal \/ UpdateOnlineStatus]_vars

SpecShare == InitCards /\ [][ShareAccount]_vars

\* The first call of init and the theme button, whatever the system prefers.
InitTheme ==
  /\ store \in InitStores
  /\ storage \in {"ok", "dead"}
  /\ systemDark \in BOOLEAN
  /\ online = TRUE
  /\ InitMemory

SpecTheme == InitTheme /\ [][AppInit \/ ToggleTheme]_vars

\* The startup under a network that settles every fetch: a store of the current
\* version that works, with any favourites value.
InitLive ==
  /\ store \in { StoreOf((VERSION_KEY :> << APP_VERSION >>) @@ (FAVORITES_KEY :> f)) :
                   f \in FavoritesChoices }
  /\ storage = "ok"
  /\ systemDark = FALSE
  /\ online = TRUE
  /\ InitMemory

SpecLive == InitLive /\ [][NextStartup]_vars /\ WF_vars(FetchSettled)

\* ------------------------------------------------------------------------
\* Properties
\* ------------------------------------------------------------------------

\* migrateLocalStorageData has run and has returned.
MigrationReturned == mig.path # "notrun" /\ ~mig.threw

\* C1: once migrateLocalStorageData has returned, whatever the store held (no
\* version, the same, an older, a newer one, damaged values), the key
\* accounts:version holds CONFIG.APP_VERSION.
C1_VersionRecorded ==
  MigrationReturned => Has(store, VERSION_KEY) /\ store[VERSION_KEY] = APP_VERSION

\* A migration from version 1.0 has returned and the marker is the current version.
C1_Witness ==
  /\ mig.path = "v1" /\ ~mig.threw
  /\ Has(store, VERSION_KEY) /\ store[VERSION_KEY] = APP_VERSION

\* The stored theme is absent or one of the two literals.
StoredThemeValid == Has(store, THEME_KEY) => store[THEME_KEY] \in {LIGHT, DARK}

\* The stored favourites are absent or a text that parses to an array.
StoredFavoritesValid ==
  Has(store, FAVORITES_KEY) => ParsesToArray(JsonParse(store[FAVORITES_KEY]))

\* C2: right after a migration from a differing version (the v1 path, the path of
\* a differing version not below "2.0", the fallback), the stored theme is absent,
\* "light" or "dark", and the stored favourites are absent or parse to an array.
C2_NoInvalidValueSurvives ==
  lastOp = "init" /\ ~mig.threw /\ mig.path \in {"v1", "other", "fallback"}
    => StoredThemeValid /\ StoredFavoritesValid

\* C3: with a store that throws on every call, init runs its whole sequence (the
\* accounts are loaded and rendered, the listeners registered) on the defaults
\* "light" and no favourites, and no handler lets an exception out.
C3_DeadStoreHarmless ==
  storage = "dead" /\ lastOp # "none"
    => /\ pc \in {"loading", "ready"}
       /\ ~raised
       /\ currentTheme \in {LIGHT, DARK}
       /\ (lastOp = "init" => currentTheme = LIGHT /\ favorites = Arr(<<>>))
       /\ (lastOp = "loadData" => pc = "ready" /\ rendered = Cards(allAccounts))

\* C4: during init, migrateLocalStorageData runs once and before every other
\* access of the store: the first entry of the log of accesses is the migration,
\* no later entry is, and the reads of initializeTheme and loadFavorites come
\* after it has returned.
C4_MigrationFirst ==
  /\ mig.path = "notrun" => readLog = <<>>
  /\ readLog # <<>> =>
       /\ readLog[1] = "migrateLocalStorageData"
       /\ \A i \in 2..Len(readLog) : readLog[i] # "migrateLocalStorageData"
       /\ Len(readLog) > 1 => MigrationReturned

\* init has made all its reads: the migration, the theme, the favourites.
C4_Witness ==
  readLog = << "migrateLocalStorageData", "initializeTheme", "loadFavorites" >>

\* C5: right after an init whose migration took the v1 path, the notice of the
\* migration is in the toast container; after the fallback, the other notice is.
C5_NoticeShown ==
  lastOp = "init" /\ ~mig.threw
    => /\ mig.path = "v1" => MSG_MIGRATED \in toasts
       /\ mig.path = "fallback" => MSG_CLEAN \in toasts

\* C6: once initializeTheme has run, and after any toggleTheme, currentTheme is
\* "light" or "dark".
C6_ThemeIsLiteral ==
  (\E i \in 1..Len(readLog) : readLog[i] = "initializeTheme")
    => currentTheme \in {LIGHT, DARK}

\* No item of the sequence occurs twice.
NoDuplicate(items) ==
  \A i, j \in 1..Len(items) : items[i] = items[j] => i = j

\* C7: the favourites in memory, loaded from a stored JSON array and changed by
\* toggleFavorite and clearFavorites, never hold the same account id twice.
C7_FavoritesUnique ==
  lastOp # "none" /\ favorites.t = "arr" => NoDuplicate(favorites.a)

\* The handlers that change the criteria or the favourites.
FilterOps ==
  { "debouncedSearch", "currency", "purpose", "favoritesOnly", "toggleFavorite",
    "clearFavorites" }

\* C8: after every handler that changes the criteria or the favourites,
\* filteredAccounts is the filter of allAccounts under the current criteria and
\* the current favourites, and the list container shows it.
C8_ListNeverStale ==
  lastOp \in FilterOps /\ favorites.t = "arr"
    => /\ filteredAccounts = FilterAccounts(allAccounts, currentFilters, favorites).list
       /\ rendered = Cards(filteredAccounts)

\* s contains sub, whatever the case of the letters.
ContainsIgnoringCase(s, sub) ==
  \E i \in 1..(Len(s) + 1) :
    /\ i + Len(sub) - 1 <= Len(s)
    /\ \A k \in 1..Len(sub) :
         ToLowerCase(<<s[i + k - 1]>>) = ToLowerCase(<<sub[k]>>)

\* The reference: all the active predicates hold for the account.
Passes(account, filters, favs) ==
  /\ \/ filters.search = <<>>
     \/ \E f \in { account.bank, account.title, account.acc_no, account.iban,
                   account.purpose, account.note } :
          ContainsIgnoringCase(f.s, filters.search)
  /\ filters.currency = ALL \/ account.currency.s = filters.currency
  /\ filters.purpose = ALL \/ account.purpose.s = filters.purpose
  /\ ~filters.favoritesOnly \/ \E i \in 1..Len(favs.a) : favs.a[i] = account.id

\* C9: applyFilters keeps an account iff the search text is empty or one single
\* field of bank, title, acc_no, iban, purpose, note contains it in any case, and
\* the currency is "all" or the account's, and the purpose is "all" or the
\* account's, and favoritesOnly is off or the id is a favourite: filteredAccounts
\* is the sequence of the accounts of allAccounts that pass, in their order.
C9_FilterIsConjunction ==
  lastOp \in {"currency", "purpose", "favoritesOnly"} /\ ~raised
    => filteredAccounts
         = SelectSeq(allAccounts, LAMBDA x : Passes(x, currentFilters, favorites))

\* All four criteria are active, and an account has passed while another has not.
C9_Witness ==
  /\ lastOp \in {"currency", "purpose", "favoritesOnly"}
  /\ currentFilters.search # <<>> /\ currentFilters.currency # ALL
  /\ currentFilters.purpose # ALL /\ currentFilters.favoritesOnly
  /\ Len(filteredAccounts) = 1 /\ Len(allAccounts) = 3

\* C10: the search input is debounced. At most one timer is pending, and it is
\* the one of the last input event, carries its value and comes due
\* DEBOUNCE_DELAY after it (a newer event has cancelled every older timer); since
\* the last event the filter has run at most once, and it has run or is pending;
\* when it runs, DEBOUNCE_DELAY has passed since the last event and the search
\* text becomes the value of that event.
C10_Debounced ==
  /\ Cardinality(timers) <= 1
  /\ \A t \in timers :
       t.id = timeoutId /\ t.arg = lastInput /\ t.left + sinceInput = DEBOUNCE_DELAY
  /\ runsSinceInput <= 1
  /\ timerSeq > 0 => (timers # {}) # (runsSinceInput = 1)
  /\ lastOp = "debouncedSearch" =>
       /\ runsSinceInput = 1
       /\ sinceInput = DEBOUNCE_DELAY
       /\ currentFilters.search = lastInput

\* Three input events less than DEBOUNCE_DELAY apart, the last of a text that is
\* not the first one's, then one run of the filter, with the last text.
C10_Witness ==
  /\ timerSeq = 3 /\ searchRuns = 1 /\ lastOp = "debouncedSearch"
  /\ currentFilters.search = <<"j", "A">> /\ lastInput = <<"j", "A">>
  /\ Len(filteredAccounts) < Len(allAccounts)

\* C11: every failure of the account load (fetch rejected, status not ok, body no
\* JSON, body no array) is taken by loadData: allAccounts is the normalized sample
\* data, three accounts, no handler has let an exception out, and the notice of
\* the failed load is in the toast container.
C11_LoadFailureFallsBack ==
  lastOp = "loadData" /\ response.outcome # "ok"
    => /\ Len(allAccounts) = 3
       /\ \E rnd \in RandomIds : allAccounts = NormalizeAll(SampleData, rnd)
       /\ Cards(allAccounts) = << Str(<<"1">>), Str(<<"2">>), Str(<<"3">>) >>
       /\ allAccounts[3].bank = Str(<<"J", "a", "z", "z", "C", "a", "s", "h">>)
       /\ ~raised
       /\ MSG_LOAD_FAILED \in toasts

\* The body of the response was no array, and the sample accounts are shown.
C11_Witness ==
  /\ lastOp = "loadData" /\ response.outcome = "nonarray"
  /\ Len(allAccounts) = 3 /\ rendered = Cards(allAccounts)
  /\ MSG_LOAD_FAILED \in toasts

\* C12: startup does not stay at the fetch of the accounts: once init awaits it,
\* init goes on to the end, the list rendered and the search and filter listeners
\* registered.
C12_StartupCompletes == (pc = "loading") ~> (pc = "ready")

\* The store holds the key with the value the session found.
Kept(k) == Has(store, k) /\ store[k] = store0[k]

\* C13: right after a migration from a version below "2.0" on a store that works:
\* a valid theme is kept and an invalid one removed; favourites that parse to an
\* array are kept and any other stored favourites removed; none of the five legacy
\* keys is in the store, whatever it held; the version is the current one; and
\* after damaged favourites loadFavorites gives the empty list.
C13_V1Rules ==
  lastOp = "init" /\ storage = "ok" /\ mig.path = "v1"
    => /\ IF ValidTheme(ItemValue(store0, THEME_KEY))
          THEN Kept(THEME_KEY) ELSE ~Has(store, THEME_KEY)
       /\ Has(store0, FAVORITES_KEY) =>
            IF ParsesToArray(JsonParse(store0[FAVORITES_KEY]))
            THEN Kept(FAVORITES_KEY)
            ELSE ~Has(store, FAVORITES_KEY) /\ favorites = Arr(<<>>)
       /\ \A i \in 1..Len(v1Keys) : ~Has(store, v1Keys[i])
       /\ Has(store, VERSION_KEY) /\ store[VERSION_KEY] = APP_VERSION

C15_SecondCallChangesNothing ==
  [][ /\ storage = "ok"
      /\ readLog # <<>> \/ ItemValue(store, VERSION_KEY) = Str(APP_VERSION)
      => store' = store /\ mig'.notice = "none" /\ mig'.path = "same" ]_vars

\* The migration has run twice on a store of version 1.0 that the first call changed.
C15_Witness ==
  /\ Len(readLog) = 2 /\ mig.path = "same" /\ storage = "ok"
  /\ ItemValue(store0, VERSION_KEY) = Str(<<"1", ".", "0">>)
  /\ Has(store0, "accounts:settings") /\ ~Has(store, "accounts:settings")

\* C16: on a first run (no version stored) with a store that works, the migration
\* writes the current version and nothing else: every other key holds what it
\* held, and no notice is handed to showToast or shown.
C16_FirstRunWritesVersionOnly ==
  lastOp = "init" /\ storage = "ok" /\ ~Has(store0, VERSION_KEY)
    => /\ mig.path = "first"
       /\ store = Put(store0, VERSION_KEY, APP_VERSION)
       /\ mig.notice = "none"
       /\ toasts = {}

\* A first run on a store with an invalid theme, damaged favourites and legacy keys.
C16_Witness ==
  /\ lastOp = "init" /\ mig.path = "first" /\ ~Has(store0, VERSION_KEY)
  /\ Has(store, THEME_KEY) /\ store[THEME_KEY] = <<"b", "l", "u", "e">>
  /\ Has(store, FAVORITES_KEY) /\ store[FAVORITES_KEY] = <<"{", "}">>
  /\ Has(store, "accountsApp:cache")
  /\ store[VERSION_KEY] = APP_VERSION

\* C17: once init has called loadFavorites, the in-memory favorites are an array
\* whose items are all strings.
C17_FavoritesAreIdStrings ==
  lastOp = "init" /\ storage = "ok" /\ (\E i \in 1..Len(readLog) : readLog[i] = "loadFavorites")
    => /\ favorites.t = "arr"
       /\ \A i \in 1..Len(favorites.a) : favorites.a[i].t = "str"

\* C18: with a store that works, after a toggleFavorite that ran to its save, a
\* new session (its migration, then loadFavorites) reads from the store exactly
\* the favorites in memory, in the same order.
C18_FavoritesRoundTrip ==
  lastOp = "toggleFavorite" /\ storage = "ok" /\ favorites.t = "arr"
    => LoadedFavorites(MigrateLocalStorageData(store, 0, 0).st, FALSE) = favorites

\* Account 3 was added to the stored favourites 2, 1.
C18_Witness ==
  /\ lastOp = "toggleFavorite" /\ storage = "ok" /\ ~raised
  /\ favorites = Arr(<< Str(<<"2">>), Str(<<"1">>), Str(<<"3">>) >>)
  /\ store[FAVORITES_KEY] # store0[FAVORITES_KEY]

\* The fields of an account that hold text.
TextFields == <<"id", "bank", "title", "acc_no", "iban", "currency", "purpose", "note">>

\* C19: whatever array of raw records the fetch delivers, normalizeAccount does
\* not raise on any record (the load does not fail), and every account has strings
\* in its eight text fields and a string or null as its logo.
C19_NormalizeTotal ==
  lastOp = "loadData" /\ response.outcome = "ok"
    => /\ MSG_LOAD_FAILED \notin toasts
       /\ Len(allAccounts) = Len(response.data)
       /\ \A i \in 1..Len(allAccounts) :
            /\ \A k \in 1..Len(TextFields) : allAccounts[i][TextFields[k]].t = "str"
            /\ allAccounts[i].logo.t \in {"str", "null"}

\* A field's declared key and its capitalized alias.
AliasPairs ==
  << <<"id", "ID">>, <<"bank", "Bank">>, <<"title", "Title">>, <<"iban", "IBAN">>,
     <<"currency", "Currency">>, <<"purpose", "Purpose">>, <<"note", "Note">> >>

\* C20: when a raw record sets both the lower-case key of a field and its
\* capitalized alias to non-empty values, the account holds the value of the
\* lower-case key.
C20_LowerCaseKeyFirst ==
  lastOp = "loadData" /\ response.outcome = "ok" /\ MSG_LOAD_FAILED \notin toasts
    => \A i \in 1..Len(response.data) : \A k \in 1..Len(AliasPairs) :
         /\ Truthy(Field(response.data[i], AliasPairs[k][1]))
         /\ Truthy(Field(response.data[i], AliasPairs[k][2]))
         => allAccounts[i][AliasPairs[k][1]] = response.data[i][AliasPairs[k][1]]

\* The handlers of setupFilters.
CriteriaOps == <<"currency", "purpose", "favoritesOnly">>
AfterCriteriaOp == \E k \in 1..Len(CriteriaOps) : lastOp = CriteriaOps[k]

\* C21: the filter is idempotent. Filtering the list applyFilters has produced,
\* under the same criteria and the same favourites, gives that list again and
\* does not throw.
C21_FilterIdempotent ==
  AfterCriteriaOp /\ ~raised
    => FilterAccounts(filteredAccounts, currentFilters, favorites)
         = [ex |-> FALSE, list |-> filteredAccounts]

\* A filter with a search text and a purpose has kept two of three accounts.
C21_Witness ==
  /\ AfterCriteriaOp /\ ~raised
  /\ currentFilters.search # <<>> /\ currentFilters.purpose # ALL
  /\ Len(filteredAccounts) = 2 /\ Len(allAccounts) = 3

\* s is a subsequence of t: the items of s are items of t in the order of t.
RECURSIVE IsSubsequence(_, _)
IsSubsequence(s, t) ==
  IF s = <<>> THEN TRUE
  ELSE IF t = <<>> THEN FALSE
  ELSE IF Head(s) = Head(t) THEN IsSubsequence(Tail(s), Tail(t))
  ELSE IsSubsequence(s, Tail(t))

\* C22: after applyFilters, filteredAccounts is a subsequence of allAccounts,
\* allAccounts is still the normalized payload of the load, and under the criteria
\* search '', currency 'all', purpose 'all', favoritesOnly false the result is
\* allAccounts.
C22_FilterIsSubsequence ==
  AfterCriteriaOp /\ ~raised
    => /\ IsSubsequence(filteredAccounts, allAccounts)
       /\ \E rnd \in RandomIds : allAccounts = NormalizeAll(response.data, rnd)
       /\ currentFilters = [search |-> <<>>, currency |-> ALL, purpose |-> ALL,
                            favoritesOnly |-> FALSE]
            => filteredAccounts = allAccounts

\* The favourites filter has kept accounts 2 and 3, stored as 3, 2, in list order.
C22_Witness ==
  /\ lastOp = "favoritesOnly" /\ currentFilters.favoritesOnly
  /\ favorites = Arr(<< Str(<<"3">>), Str(<<"2">>) >>)
  /\ Cards(filteredAccounts) = << Str(<<"2">>), Str(<<"3">>) >>
  /\ Len(allAccounts) = 3

\* C23: a share the user cancels (navigator.share rejects with AbortError) shows
\* no notice, attempts no copy, leaves the clipboard alone and raises nothing; a
\* share rejected for any other reason falls back to a copy of the account
\* details, whose outcome is the only notice.
C23_ShareCancelIsNoError ==
  [][ lastOp' = "shareAccount" /\ share'.went \notin {"unsupported", "resolved"}
      => /\ ~raised'
         /\ IF share'.went = "AbortError"
            THEN /\ toasts' = {}
                 /\ share'.fallback = "none"
                 /\ clipboard' = clipboard
            ELSE /\ share'.fallback = "Account details"
                 /\ \E i \in 1..Len(allAccounts) :
                      /\ allAccounts[i].id = share'.account
                      /\ share'.copied = FallbackText(allAccounts[i])
                 /\ \/ toasts' = {"Account details copied to clipboard"}
                       /\ clipboard' = share'.copied
                    \/ toasts' = {"Failed to copy account details"}
                       /\ clipboard' = clipboard ]_vars

\* A share is cancelled while the clipboard holds the link of an earlier share.
C23_Witness ==
  /\ lastOp = "shareAccount"
  /\ share.went = "AbortError"
  /\ clipboard = ShareUrl(allAccounts[2])

\* C24: on a first visit (no theme in the store) the theme initializeTheme leaves
\* follows the system preference: dark when the system prefers dark, light
\* otherwise.
C24_FirstVisitFollowsSystem ==
  /\ lastOp = "init"
  /\ \E k \in 1..Len(readLog) : readLog[k] = "initializeTheme"
  /\ ~Has(store0, THEME_KEY)
  => currentTheme = (IF systemDark THEN DARK ELSE LIGHT)

\* The theme a new session has after migrateLocalStorageData and initializeTheme
\* when it starts from the store st and no store call throws.
NewSessionTheme(st) ==
  InitRun([ store |-> st, dom |-> FALSE, toasts |-> {}, theme |-> LIGHT,
            favorites |-> Arr(<<>>),
            mig |-> [path |-> "notrun", threw |-> FALSE, notice |-> "none"],
            log |-> <<>>, threw |-> FALSE, offline |-> FALSE ],
          InitSteps,
          [f1 |-> 0, f2 |-> 0, themeFail |-> FALSE, favFail |-> FALSE]).theme

\* C26: with a store that works, after toggleTheme the stored theme is currentTheme
\* and a new session starts with that theme; a toggleTheme from light or dark
\* leads to a theme from which the next toggleTheme leads back.
C26_ThemePersists ==
  [][ lastOp' = "toggleTheme"
      => /\ storage = "ok"
            => /\ ItemValue(store', THEME_KEY) = Str(currentTheme')
               /\ NewSessionTheme(store') = currentTheme'
         /\ currentTheme \in {LIGHT, DARK} => ToggledTheme(currentTheme') = currentTheme ]_vars

\* The session found light stored, and two calls of toggleTheme later the theme
\* and the stored theme are light again.
C26_Witness ==
  /\ lastOp = "toggleTheme"
  /\ storage = "ok"
  /\ ItemValue(store0, THEME_KEY) = Str(LIGHT)
  /\ currentTheme = LIGHT
  /\ ItemValue(store, THEME_KEY) = Str(LIGHT)

\* C25: isOffline follows the online and offline events; while it is true,
\* showQRModal requests no image and the display holds the 'unavailable offline'
\* message; for an account with neither IBAN nor account number showQRModal
\* leaves the modal as it is (aria-hidden, info text, display) and shows the error
\* notice.
C25_OfflineAndNoDataQR ==
  [][ /\ lastOp' = "updateOnlineStatus" => isOffline' = ~online'
      /\ lastOp' = "showQRModal"
         => \E i \in 1..Len(allAccounts) :
              /\ allAccounts[i].id = qr'.asked
              /\ IF ~Truthy(allAccounts[i].iban) /\ ~Truthy(allAccounts[i].acc_no)
                 THEN /\ qr' = [qr EXCEPT !.asked = qr'.asked]
                      /\ toasts' = {"No account number or IBAN available for QR code"}
                 ELSE /\ ~qr'.hidden
                      /\ toasts' = {}
                      /\ isOffline => qr'.loads = qr.loads /\ qr'.display = "offline" ]_vars

\* The modal is opened offline while the image of an earlier request is pending,
\* after the window has gone offline.
C25_Witness ==
  /\ lastOp = "showQRModal"
  /\ isOffline
  /\ ~online
  /\ qr.display = "offline"
  /\ ~qr.hidden
  /\ Len(qr.loads) = 1

\* C27: once no image load is pending, the image in the display of the modal
\* encodes the data of the account last requested, the one the info text names.
C27_ImageOfLastRequest ==
  qr.loads = <<>> /\ qr.display = "image"
  => /\ Len(qr.image) <= Len(qr.info)
     /\ SubSeq(qr.info, Len(qr.info) - Len(qr.image) + 1, Len(qr.info)) = qr.image

\* C28: App.clearFavorites() returns without an exception and leaves favorites
\* empty in memory and, when the store works, '[]' under the favourites key.
C28_ClearFavoritesCompletes ==
  lastOp = "clearFavorites"
  => /\ ~raised
     /\ favorites = Arr(<<>>)
     /\ storage = "ok" => ItemValue(store, FAVORITES_KEY) = Str(<<"[", "]">>)

\* C29: after loadData of app_backup.js, by the fetch or by the fallback, every
\* account of allAccounts has id, bank, title, acc_no, iban, currency, purpose and
\* note, each a string.
C29_BackupCanonicalShape ==
  lastOp = "loadData"
  => \A i \in 1..Len(allAccounts) : \A k \in 1..Len(TextFields) :
       /\ TextFields[k] \in DOMAIN allAccounts[i]
       /\ allAccounts[i][TextFields[k]].t = "str"

\* C30: applyFilters of app.js and applyFilters of app_backup.js select the same
\* accounts in the same order, whatever the criteria and the favourites.
C30_FiltersEquivalent ==
  AfterCriteriaOp /\ ~raised
  => filteredAccounts = BackupFilterAccounts(allAccounts, currentFilters, favorites)

====
